---- MODULE Spec2Model ----
(***************************************************************************)
(* Model of the SplitUDFs optimizer rule                                   *)
(* (src/daft-logical-plan/src/optimization/rules/split_udfs.rs) and of     *)
(* the video decoder (src/daft-video/src/decoder.rs, buffer.rs).           *)
(*                                                                         *)
(* Expressions are records [k, n, c]: kind, name (columns and aliases) and *)
(* the sequence of children.  A plan is a chain of unary nodes, written as *)
(* a sequence from the source (index 1) up to the root (last index); the   *)
(* input of node i is the prefix 1..i-1.                                   *)
(***************************************************************************)
EXTENDS Integers, Sequences, FiniteSets, TLC

\* The rule applied to a plan.
VARIABLES plan, pc, res, res2, res3

\* The fields new_children and is_list_map of the TruncateAnyUDFChildren
\* the rule dropped last: what an earlier invocation leaves behind.
VARIABLE kept

\* One rewriter applied to one expression of a projection.
VARIABLES subject, at_stage, at_expr, rewritten

\* The video decoder (src/daft-video/src/decoder.rs, buffer.rs): the source,
\* the position of the background task, the MemReader behind the opaque
\* pointer of the AVIO context, the reads the AVIO context has still to make,
\* the state the MemReader was in at each invocation of read_packet, the
\* packets demuxed, the frame counter, the frame channel, the receiver, the
\* results next_frame has returned, how the task ended, and the sends that
\* succeeded and failed.
VARIABLES video_src, task, reader, unread, read_log, npackets, cnt, chan,
          rx, got, ending, sent, send_errors

\* FfmpegDecoder::new and the blocking task it awaits: the position of new,
\* the position of detect_metadata, the MemReader of the Input that
\* detect_metadata opens, and the reads its AVIO context has still to make.
VARIABLES ctor, meta, meta_reader, meta_unread

ruleVars == <<plan, pc, res, res2, res3, kept>>

rewriterVars == <<subject, at_stage, at_expr, rewritten>>

metadataVars == <<ctor, meta, meta_reader, meta_unread>>

decoderVars ==
    <<video_src, task, reader, unread, read_log, npackets, cnt, chan, rx, got,
      ending, sent, send_errors, ctor, meta, meta_reader, meta_unread>>

vars ==
    <<plan, pc, res, res2, res3, kept, subject, at_stage, at_expr, rewritten,
      video_src, task, reader, unread, read_log, npackets, cnt, chan, rx, got,
      ending, sent, send_errors, ctor, meta, meta_reader, meta_unread>>

\* Bound on the number of expression nodes (aliases included) and opaque
\* nodes of an input plan.
MaxNodes == 7

\* Bound on the number of nodes of an input plan above the source.
MaxPlanNodes == 2

-----------------------------------------------------------------------------
(* Expressions                                                             *)

Col(name) == [k |-> "col", n |-> name, c |-> <<>>]

Lit == [k |-> "lit", n |-> "", c |-> <<>>]

Alias(e, name) == [k |-> "alias", n |-> name, c |-> <<e>>]

Fn(kind, args) == [k |-> kind, n |-> "", c |-> args]

\* Expr::name(): an alias supplies it, a column its own name, a literal is
\* called "literal", every function form takes the name of its first input.
RECURSIVE Name(_)
Name(e) ==
    IF e.k \in {"col", "alias"} THEN e.n
    ELSE IF e.k = "lit" THEN "literal"
    ELSE Name(e.c[1])

Names(es) == [i \in 1..Len(es) |-> Name(es[i])]

Range(s) == {s[i] : i \in 1..Len(s)}

is_udf(e) == e.k = "udf"

is_list_map(e) == e.k = "listmap"

requires_computation(e) == e.k \notin {"col", "lit"}

\* expr.exists(is_udf): some node of the tree, list_map bodies included.
RECURSIVE exists_udf(_)
exists_udf(e) ==
    \/ is_udf(e)
    \/ \E i \in 1..Len(e.c) : exists_udf(e.c[i])

\* get_required_columns: the column names of the tree in pre-order.
RECURSIVE get_required_columns(_)
RECURSIVE required_columns_of(_, _)
get_required_columns(e) ==
    IF e.k = "col" THEN <<e.n>> ELSE required_columns_of(e.c, 1)
required_columns_of(cs, i) ==
    IF i > Len(cs) THEN <<>>
    ELSE get_required_columns(cs[i]) \o required_columns_of(cs, i + 1)

\* The pre-order walk of exists_skip_list_map.  The closure answers
\* TreeNodeRecursion::Stop at a list_map and at the first UDF, and Stop ends
\* the whole walk (not only the descent below the node), so the nodes that
\* follow a list_map in pre-order are never inspected.
RECURSIVE skip_walk(_)
RECURSIVE skip_walk_children(_, _)
skip_walk(e) ==
    IF is_list_map(e) THEN "stop"
    ELSE IF is_udf(e) THEN "found"
    ELSE skip_walk_children(e.c, 1)
skip_walk_children(cs, i) ==
    IF i > Len(cs) THEN "continue"
    ELSE LET r == skip_walk(cs[i])
         IN IF r = "continue" THEN skip_walk_children(cs, i + 1) ELSE r

exists_skip_list_map(e) == skip_walk(e) = "found"

\* The alias chain of the root ends at a UDF.
RECURSIVE is_udf_and_should_truncate_children(_)
is_udf_and_should_truncate_children(e) ==
    IF e.k = "alias" THEN is_udf_and_should_truncate_children(e.c[1])
    ELSE is_udf(e)

-----------------------------------------------------------------------------
(* Generated names                                                         *)

\* Faulty variant of IntermediateName below: the position is written before
\* the stage.
IntermediateNamePositionFirst(prefix, s, p, k) ==
    prefix \o ToString(p) \o "-" \o ToString(s) \o "-" \o ToString(k) \o "__"

\* format!("__{PREFIX}_{stage_idx}-{expr_idx}-{idx}__").
IntermediateName(prefix, s, p, k) ==
    prefix \o ToString(s) \o "-" \o ToString(p) \o "-" \o ToString(k) \o "__"

RootName(s, p, k) == IntermediateName("__TruncateRootUDF_", s, p, k)

AnyName(s, p, k) == IntermediateName("__TruncateAnyUDFChildren_", s, p, k)

HasName(es, name) == \E i \in 1..Len(es) : Name(es[i]) = name

\* Faulty variant of PushColumn below: a column is pushed every time it is
\* visited.
PushColumnAlways(nc, node) == Append(nc, node)

\* A column is pushed onto new_children once per name.
PushColumn(nc, node) == IF HasName(nc, node.n) THEN nc ELSE Append(nc, node)

-----------------------------------------------------------------------------
(* TruncateRootUDF                                                         *)

\* What a rewriter records about a child it lifts: the generated name, the
\* child, the rewriter, the child's zero-based index among the inputs of its
\* parent, and those inputs.  (Not program state: used to state properties.)
Lifted(name, kind, cs, i) ==
    [name |-> name, e |-> cs[i], kind |-> kind, arg |-> i - 1, inputs |-> cs]

\* Rewriter state: new_children and the record of the lifted children.
RootState(nc, gen) == [nc |-> nc, gen |-> gen]

\* TruncateRootUDF::new: new_children is empty.
TruncateRootUDFNew == RootState(<<>>, <<>>)

\* The input cs[i] is pushed, aliased, onto new_children.
Lift(st, name, kind, cs, i) ==
    [st EXCEPT !.nc = Append(@, Alias(cs[i], name)),
               !.gen = Append(@, Lifted(name, kind, cs, i))]

\* One more new input in front of the new inputs that follow it.
Prepend(e, rest) == [c |-> <<e>> \o rest.c, st |-> rest.st]

\* node.with_new_children(new_inputs)
WithInputs(node, t) == [e |-> [node EXCEPT !.c = t.c], st |-> t.st]

\* Faulty variant of the closure below: only the inputs that are UDFs are
\* lifted, so a computed input with a UDF inside stays under the root UDF.
RECURSIVE RootTruncateUdfInputs(_, _, _, _, _, _)
RootTruncateUdfInputs(cs, i, k, st, s, p) ==
    IF i > Len(cs) THEN [c |-> <<>>, st |-> st]
    ELSE IF is_udf(cs[i])
         THEN Prepend(Col(RootName(s, p, k)),
                      RootTruncateUdfInputs(
                          cs, i + 1, k + 1,
                          Lift(st, RootName(s, p, k), "root", cs, i), s, p))
         ELSE Prepend(cs[i], RootTruncateUdfInputs(cs, i + 1, k, st, s, p))

\* The closure over the inputs of the UDF: an input that requires
\* computation is pushed, aliased, onto new_children and replaced by a
\* column; k counts the inputs replaced so far.
RECURSIVE RootTruncateInputs(_, _, _, _, _, _)
RootTruncateInputs(cs, i, k, st, s, p) ==
    IF i > Len(cs) THEN [c |-> <<>>, st |-> st]
    ELSE IF requires_computation(cs[i])
         THEN Prepend(Col(RootName(s, p, k)),
                      RootTruncateInputs(
                          cs, i + 1, k + 1,
                          Lift(st, RootName(s, p, k), "root", cs, i), s, p))
         ELSE Prepend(cs[i], RootTruncateInputs(cs, i + 1, k, st, s, p))

TruncateRootUDF_f_down(node, st, s, p) ==
    IF node.k = "col"
    THEN [e |-> node, st |-> [st EXCEPT !.nc = PushColumn(@, node)]]
    ELSE IF is_list_map(node) THEN [e |-> node, st |-> st]
    ELSE IF is_udf(node)
         THEN WithInputs(node, RootTruncateInputs(node.c, 1, 0, st, s, p))
         ELSE [e |-> node, st |-> st]

\* TreeNode::rewrite: f_down on the node, then the children of the node
\* f_down returned, left to right, sharing the rewriter's state.
RECURSIVE RewriteRoot(_, _, _, _)
RECURSIVE RewriteRootChildren(_, _, _, _, _)
RewriteRootBelow(d, s, p) ==
    WithInputs(d.e, RewriteRootChildren(d.e.c, 1, d.st, s, p))
RewriteRoot(node, st, s, p) ==
    RewriteRootBelow(TruncateRootUDF_f_down(node, st, s, p), s, p)
RewriteRootSiblings(r, cs, i, s, p) ==
    Prepend(r.e, RewriteRootChildren(cs, i + 1, r.st, s, p))
RewriteRootChildren(cs, i, st, s, p) ==
    IF i > Len(cs) THEN [c |-> <<>>, st |-> st]
    ELSE RewriteRootSiblings(RewriteRoot(cs[i], st, s, p), cs, i, s, p)

-----------------------------------------------------------------------------
(* TruncateAnyUDFChildren                                                  *)

\* Rewriter state: new_children, the is_list_map flag, whether the
\* unreachable!() of f_down was executed, and the record of lifted children.
AnyState(nc, flag, panic, gen) ==
    [nc |-> nc, flag |-> flag, panic |-> panic, gen |-> gen]

\* Faulty variant of TruncateAnyUDFChildrenNew below: the rewriter starts
\* from the fields of the rewriter dropped last.
TruncateAnyUDFChildrenKept == AnyState(kept.nc, kept.flag, FALSE, <<>>)

\* TruncateAnyUDFChildren::new: new_children is empty and is_list_map is
\* false, whatever an earlier rewriter held.
TruncateAnyUDFChildrenNew == AnyState(<<>>, FALSE, FALSE, <<>>)

\* Faulty variant of the closure below: the name of a lifted input carries
\* the index of the input instead of the count of the inputs lifted so far.
RECURSIVE AnyTruncateInputsByIndex(_, _, _, _, _, _)
AnyTruncateInputsByIndex(cs, i, k, st, s, p) ==
    IF i > Len(cs) THEN [c |-> <<>>, st |-> st]
    ELSE IF is_udf(cs[i])
         THEN Prepend(Col(AnyName(s, p, i - 1)),
                      AnyTruncateInputsByIndex(
                          cs, i + 1, k + 1,
                          Lift(st, AnyName(s, p, i - 1), "any", cs, i), s, p))
         ELSE Prepend(cs[i], AnyTruncateInputsByIndex(cs, i + 1, k, st, s, p))

\* Faulty variant of the closure below: only the first UDF input of the
\* node is lifted, and the walk descends into the others.
RECURSIVE AnyTruncateFirstInput(_, _, _, _, _, _)
AnyTruncateFirstInput(cs, i, k, st, s, p) ==
    IF i > Len(cs) THEN [c |-> <<>>, st |-> st]
    ELSE IF is_udf(cs[i]) /\ k = 0
         THEN Prepend(Col(AnyName(s, p, k)),
                      AnyTruncateFirstInput(
                          cs, i + 1, k + 1,
                          Lift(st, AnyName(s, p, k), "any", cs, i), s, p))
         ELSE Prepend(cs[i], AnyTruncateFirstInput(cs, i + 1, k, st, s, p))

\* The closure over the inputs of a node that has a UDF input: each UDF
\* input is pushed, aliased, onto new_children and replaced by a column; k
\* counts the inputs of this node replaced so far.
RECURSIVE AnyTruncateInputs(_, _, _, _, _, _)
AnyTruncateInputs(cs, i, k, st, s, p) ==
    IF i > Len(cs) THEN [c |-> <<>>, st |-> st]
    ELSE IF is_udf(cs[i])
         THEN Prepend(Col(AnyName(s, p, k)),
                      AnyTruncateInputs(
                          cs, i + 1, k + 1,
                          Lift(st, AnyName(s, p, k), "any", cs, i), s, p))
         ELSE Prepend(cs[i], AnyTruncateInputs(cs, i + 1, k, st, s, p))

TruncateAnyUDFChildren_f_down(node, st, s, p) ==
    IF st.flag THEN [e |-> node, st |-> st]
    ELSE IF is_udf(node) THEN [e |-> node, st |-> [st EXCEPT !.panic = TRUE]]
    ELSE IF node.k = "col"
         THEN [e |-> node, st |-> [st EXCEPT !.nc = PushColumn(@, node)]]
    ELSE IF is_list_map(node) THEN [e |-> node, st |-> [st EXCEPT !.flag = TRUE]]
    ELSE IF ~ \E i \in 1..Len(node.c) : is_udf(node.c[i])
         THEN [e |-> node, st |-> st]
    ELSE WithInputs(node, AnyTruncateInputs(node.c, 1, 0, st, s, p))

\* TreeNode::rewrite with TruncateAnyUDFChildren; ends at the panic.
RECURSIVE RewriteAny(_, _, _, _)
RECURSIVE RewriteAnyChildren(_, _, _, _, _)
RewriteAnyBelow(d, s, p) ==
    IF d.st.panic THEN d
    ELSE WithInputs(d.e, RewriteAnyChildren(d.e.c, 1, d.st, s, p))
RewriteAny(node, st, s, p) ==
    RewriteAnyBelow(TruncateAnyUDFChildren_f_down(node, st, s, p), s, p)
RewriteAnySiblings(r, cs, i, s, p) ==
    Prepend(r.e, RewriteAnyChildren(cs, i + 1, r.st, s, p))
RewriteAnyChildren(cs, i, st, s, p) ==
    IF i > Len(cs) \/ st.panic THEN [c |-> SubSeq(cs, i, Len(cs)), st |-> st]
    ELSE RewriteAnySiblings(RewriteAny(cs[i], st, s, p), cs, i, s, p)

-----------------------------------------------------------------------------
(* split_projection                                                        *)

\* Faulty variant of MergeChildren below: a new child goes to the front of
\* new_children.
RECURSIVE MergeChildrenFront(_, _, _, _)
MergeChildrenFront(cs, i, seen, remaining) ==
    IF i > Len(cs) THEN [seen |-> seen, remaining |-> remaining]
    ELSE IF Name(cs[i]) \in seen
         THEN MergeChildrenFront(cs, i + 1, seen, remaining)
         ELSE MergeChildrenFront(cs, i + 1, seen \cup {Name(cs[i])},
                                 <<cs[i]>> \o remaining)

\* Faulty variant of MergeChildren below: every new child is pushed, seen or
\* not.
RECURSIVE MergeChildrenAll(_, _, _, _)
MergeChildrenAll(cs, i, seen, remaining) ==
    IF i > Len(cs) THEN [seen |-> seen, remaining |-> remaining]
    ELSE MergeChildrenAll(cs, i + 1, seen \cup {Name(cs[i])},
                          Append(remaining, cs[i]))

\* Merge a rewriter's new_children into (new_children_seen, new_children),
\* skipping the names already seen.
RECURSIVE MergeChildren(_, _, _, _)
MergeChildren(cs, i, seen, remaining) ==
    IF i > Len(cs) THEN [seen |-> seen, remaining |-> remaining]
    ELSE IF Name(cs[i]) \in seen
         THEN MergeChildren(cs, i + 1, seen, remaining)
         ELSE MergeChildren(cs, i + 1, seen \cup {Name(cs[i])},
                            Append(remaining, cs[i]))

\* The record of the children lifted out of the expression at zero-based
\* position pos of the projection list.
StampPosition(gen, pos) ==
    [j \in 1..Len(gen) |->
        [name |-> gen[j].name, e |-> gen[j].e, kind |-> gen[j].kind,
         arg |-> gen[j].arg, inputs |-> gen[j].inputs, pos |-> pos]]

\* The record of the children lifted by the stage at recursion depth depth.
StampStage(gen, depth) ==
    [j \in 1..Len(gen) |->
        [name |-> gen[j].name, e |-> gen[j].e, kind |-> gen[j].kind,
         arg |-> gen[j].arg, inputs |-> gen[j].inputs, pos |-> gen[j].pos,
         stage |-> depth]]

\* The loop's variables after one expression: its truncated form e is
\* pushed and its merged children m replace (new_children_seen, new_children).
Pushed(acc, e, m, panic, gen) ==
    [truncated |-> Append(acc.truncated, e), seen |-> m.seen,
     remaining |-> m.remaining, panic |-> acc.panic \/ panic,
     gen |-> acc.gen \o gen, routes |-> acc.routes]

\* The loop's variables after the rewrite r of the expression at pos.
Rewritten(acc, r, panic, pos) ==
    Pushed(acc, r.e, MergeChildren(r.st.nc, 1, acc.seen, acc.remaining),
           panic, StampPosition(r.st.gen, pos))

RewrittenAny(acc, r, pos) == Rewritten(acc, r, r.st.panic, pos)

ColumnsOf(names) == [j \in 1..Len(names) |-> Col(names[j])]

\* The branch of the loop the expression took: "root" for TruncateRootUDF,
\* "any" for TruncateAnyUDFChildren, "none" when the tree is not rewritten.
Routed(acc, route) == [acc EXCEPT !.routes = Append(@, route)]

\* One iteration of the loop over the projection; expr_idx = i - 1.
SplitOne(expr, i, acc, s) ==
    IF is_udf_and_should_truncate_children(expr)
    THEN Routed(Rewritten(acc,
                          RewriteRoot(expr, TruncateRootUDFNew, s, i - 1),
                          FALSE, i - 1),
                "root")
    ELSE IF exists_udf(expr)
    THEN Routed(RewrittenAny(acc,
                             RewriteAny(expr, TruncateAnyUDFChildrenNew,
                                        s, i - 1),
                             i - 1),
                "any")
    ELSE Routed(Pushed(acc, expr,
                       MergeChildren(ColumnsOf(get_required_columns(expr)), 1,
                                     acc.seen, acc.remaining),
                       FALSE, <<>>),
                "none")

RECURSIVE SplitLoop(_, _, _, _)
SplitLoop(projection, i, acc, s) ==
    IF i > Len(projection) \/ acc.panic THEN acc
    ELSE SplitLoop(projection, i + 1, SplitOne(projection[i], i, acc, s), s)

split_projection(projection, stage_idx) ==
    SplitLoop(projection, 1,
              [truncated |-> <<>>, seen |-> {}, remaining |-> <<>>,
               panic |-> FALSE, gen |-> <<>>, routes |-> <<>>],
              stage_idx)

-----------------------------------------------------------------------------
(* Plans                                                                   *)

Source(cols) == [k |-> "Source", exprs |-> [i \in 1..Len(cols) |-> Col(cols[i])],
                 udf |-> <<>>]

\* Any node kind other than Project and UDFProject; it forwards its input's
\* columns.
Opaque == [k |-> "Opaque", exprs |-> <<>>, udf |-> <<>>]

Project(exprs) == [k |-> "Project", exprs |-> exprs, udf |-> <<>>]

\* Output columns of a UDFProject: the passthrough columns, then the UDF.
UDFProject(expr, passthrough) ==
    [k |-> "UDFProject", exprs |-> passthrough, udf |-> <<expr>>]

Front(s) == SubSeq(s, 1, Len(s) - 1)

Last(s) == s[Len(s)]

\* schema().names() of the root of a plan.
RECURSIVE Schema(_)
Schema(p) ==
    IF Last(p).k = "Opaque" THEN Schema(Front(p))
    ELSE Names(Last(p).exprs \o Last(p).udf)

\* Project::try_new and UDFProject::try_new resolve every expression against
\* the schema of the input and fail on a column the input does not produce.
Resolves(exprs, schema) ==
    \A i \in 1..Len(exprs) :
        Range(get_required_columns(exprs[i])) \subseteq Range(schema)

AllColumns(exprs) == \A i \in 1..Len(exprs) : exprs[i].k = "col"

Filter(s, Keep(_)) == SelectSeq(s, Keep)

\* A result of the rule on one projection: the status ("ok", "error" for an
\* Err, "panic"), the Transformed flag, the plan, the record of the
\* children lifted on the way and the record of the invocations of
\* recursive_optimize_project made on the way.
Failure(status) ==
    [st |-> status, yes |-> FALSE, plan |-> <<>>, gen |-> <<>>, calls |-> <<>>]

Unchanged(p) ==
    [st |-> "ok", yes |-> FALSE, plan |-> p, gen |-> <<>>, calls |-> <<>>]

\* The columns of the child's schema whose name is not in names.
PassthroughColumns(fields, names) ==
    Filter(ColumnsOf(fields), LAMBDA c : Name(c) \notin names)

\* Iteratively build the UDFProject nodes on top of child.
RECURSIVE ChainUDFProjects(_, _, _)
ChainUDFProjects(child, stages, i) ==
    IF i > Len(stages) THEN [st |-> "ok", plan |-> child]
    ELSE IF ~Resolves(<<stages[i]>>, Schema(child))
         THEN [st |-> "error", plan |-> <<>>]
         ELSE ChainUDFProjects(
                  Append(child,
                         UDFProject(stages[i],
                                    PassthroughColumns(Schema(child),
                                                       {Name(stages[i])}))),
                  stages, i + 1)

\* Faulty variant of the final select below: the columns are named after
\* the expressions beneath the aliases.
FinalSelectionBeneathAlias(projection) ==
    [i \in 1..Len(projection) |->
        Col(Name(IF projection[i].k = "alias" THEN projection[i].c[1]
                 ELSE projection[i]))]

\* The final select: one column per expression of the projection.
FinalSelection(projection) ==
    [i \in 1..Len(projection) |-> Col(Name(projection[i]))]

\* The final select on top of the chain of UDFProjects.
Selected(chain, final, gen) ==
    IF chain.st # "ok" THEN Failure(chain.st)
    ELSE IF ~Resolves(final, Schema(chain.plan)) THEN Failure("error")
    ELSE [st |-> "ok", yes |-> TRUE,
          plan |-> Append(chain.plan, Project(final)), gen |-> gen,
          calls |-> <<>>]

\* Faulty variant of Chained below: without stateless stages there is no
\* pre-project.
ChainedWithoutPreProject(child, stateless_projection, actor_pool_stages, projection, gen) ==
    IF ~Resolves(stateless_projection, Schema(child)) THEN Failure("error")
    ELSE Selected(ChainUDFProjects(
                      IF AllColumns(stateless_projection) THEN child
                      ELSE Append(child, Project(stateless_projection)),
                      actor_pool_stages, 1),
                  FinalSelection(projection), gen)

\* The pre-project of the stateless expressions, then the UDFProjects.
Chained(child, stateless_projection, actor_pool_stages, projection, gen) ==
    IF ~Resolves(stateless_projection, Schema(child)) THEN Failure("error")
    ELSE Selected(ChainUDFProjects(Append(child, Project(stateless_projection)),
                                   actor_pool_stages, 1),
                  FinalSelection(projection), gen)

\* The passthrough columns of the pre-project, then the stateless stages.
StatelessProjection(child, stateless_stages) ==
    PassthroughColumns(Schema(child), Range(Names(stateless_stages)))
        \o stateless_stages

\* The chain child -> Project -> UDFProject* -> Project of one stage.
BuildStage(new_plan_child, truncated_exprs, projection, gen) ==
    Chained(new_plan_child,
            StatelessProjection(
                new_plan_child,
                Filter(truncated_exprs, LAMBDA e : ~exists_skip_list_map(e))),
            Filter(truncated_exprs, exists_skip_list_map),
            projection, gen)

\* The base case: no expression has a UDF that exists_skip_list_map finds.
has_udfs(exprs) == \E i \in 1..Len(exprs) : exists_skip_list_map(exprs[i])

\* recursive_optimize_project(projection, plan, recursive_count), where
\* projection = Project(input, exprs).
RECURSIVE recursive_optimize_project(_, _, _, _)

\* The plan under the stage: the input itself when only columns remain,
\* else the remaining expressions, optimized recursively.
\* The base case does not split the projection.
NoSplit == [truncated |-> <<>>, remaining |-> <<>>, routes |-> <<>>]

\* One invocation of recursive_optimize_project: its recursive_count, the
\* expressions of the projection it was given and what split_projection
\* returned for them: the truncated expressions, the remaining ones, and the
\* branch each expression took.
Call(exprs, sp, recursive_count) ==
    [depth |-> recursive_count, exprs |-> exprs, truncated |-> sp.truncated,
     remaining |-> sp.remaining, routes |-> sp.routes]

\* The invocations made so far, outermost first, recorded on a result.
Called(r, calls) == [r EXCEPT !.calls = calls]

\* Faulty variant of NewPlanChild below: the recursion is entered even when
\* only columns remain.
NewPlanChildAlways(input, remaining, recursive_count) ==
    IF ~Resolves(remaining, Schema(input)) THEN Failure("error")
    ELSE recursive_optimize_project(input, remaining,
                                    Append(input, Project(remaining)),
                                    recursive_count + 1)

NewPlanChild(input, remaining, recursive_count) ==
    IF AllColumns(remaining) THEN Unchanged(input)
    ELSE IF ~Resolves(remaining, Schema(input)) THEN Failure("error")
    ELSE recursive_optimize_project(input, remaining,
                                    Append(input, Project(remaining)),
                                    recursive_count + 1)

StageOn(new_plan_child, sp, exprs, recursive_count) ==
    IF new_plan_child.st # "ok"
    THEN Called(Failure(new_plan_child.st),
                <<Call(exprs, sp, recursive_count)>> \o new_plan_child.calls)
    ELSE Called(BuildStage(new_plan_child.plan, sp.truncated, exprs,
                           StampStage(sp.gen, recursive_count)
                               \o new_plan_child.gen),
                <<Call(exprs, sp, recursive_count)>>
                    \o new_plan_child.calls)

StageOf(input, exprs, sp, recursive_count) ==
    IF sp.panic THEN Failure("panic")
    ELSE StageOn(NewPlanChild(input, sp.remaining, recursive_count),
                 sp, exprs, recursive_count)

recursive_optimize_project(input, exprs, node_plan, recursive_count) ==
    IF ~has_udfs(exprs)
    THEN Called(Unchanged(node_plan), <<Call(exprs, NoSplit, recursive_count)>>)
    ELSE StageOf(input, exprs, split_projection(exprs, recursive_count),
                 recursive_count)

\* Faulty variant of AliasedProjection below: an expression whose UDFs lie
\* beneath a list_map is not aliased.
AliasedProjectionOutsideListMap(exprs) ==
    [i \in 1..Len(exprs) |->
        IF exists_skip_list_map(exprs[i]) /\ exprs[i].k # "alias"
        THEN Alias(exprs[i], Name(exprs[i]))
        ELSE exprs[i]]

\* Faulty variant of AliasedProjection below: no alias is added.
AliasedProjectionNone(exprs) == exprs

\* The aliases added on entry.
AliasedProjection(exprs) ==
    [i \in 1..Len(exprs) |->
        IF exists_udf(exprs[i]) /\ exprs[i].k # "alias"
        THEN Alias(exprs[i], Name(exprs[i]))
        ELSE exprs[i]]

\* Every expression that is not an alias is aliased.
AliasedAll(exprs) ==
    [i \in 1..Len(exprs) |->
        IF exprs[i].k # "alias" THEN Alias(exprs[i], Name(exprs[i]))
        ELSE exprs[i]]

\* Project::try_new on the aliased expressions, then the recursion.
OptimizeAliased(input, aliased_projection_exprs, plan_node) ==
    IF ~Resolves(aliased_projection_exprs, Schema(input)) THEN Failure("error")
    ELSE recursive_optimize_project(input, aliased_projection_exprs, plan_node, 0)

\* Faulty variant of try_optimize_project below: every expression that is
\* not an alias is aliased, and the aliased projection stands for the plan.
try_optimize_project_aliasing_all(p) ==
    OptimizeAliased(Front(p), AliasedAll(Last(p).exprs),
                    Append(Front(p), Project(AliasedAll(Last(p).exprs))))

\* try_optimize_project on the Project at the root of p.
try_optimize_project(p) ==
    OptimizeAliased(Front(p), AliasedProjection(Last(p).exprs), p)

\* Faulty variant of OnNode below: a node that is not a Project is forwarded
\* as its input.
OnNodeForwardingInput(p) ==
    IF Last(p).k = "Project" THEN try_optimize_project(p)
    ELSE IF Len(p) > 1 THEN Unchanged(Front(p)) ELSE Unchanged(p)

\* The closure of transform_down on the root of p.
OnNode(p) ==
    IF Last(p).k = "Project" THEN try_optimize_project(p) ELSE Unchanged(p)

\* The log entry of a replaced Project, or of the Project the rule failed on:
\* its expressions, its input, the plan that replaced it (none on failure),
\* the children lifted for it and the invocations of
\* recursive_optimize_project made for it.
LogEntry(p, r) ==
    IF r.yes \/ r.st # "ok"
    THEN <<[exprs |-> Last(p).exprs, input |-> Front(p), repl |-> r.plan,
            gen |-> r.gen, calls |-> r.calls]>>
    ELSE <<>>

\* The root r.plan ends with, on top of the rewritten input.  When the walk
\* below fails the error is returned, after the invocations already made for
\* the root.
Rebuilt(p, r, below) ==
    IF below.st # "ok"
    THEN [st |-> below.st, plan |-> <<>>, log |-> LogEntry(p, r) \o below.log]
    ELSE [st |-> "ok", plan |-> Append(below.plan, Last(r.plan)),
          log |-> LogEntry(p, r) \o below.log]

\* Faulty variant of try_optimize below: the walk does not continue beneath
\* a node the closure replaced.
RECURSIVE try_optimize_jump(_)
JumpBelow(p, r) ==
    IF r.st # "ok" THEN [st |-> r.st, plan |-> <<>>, log |-> LogEntry(p, r)]
    ELSE IF r.yes \/ Len(r.plan) = 1
    THEN [st |-> "ok", plan |-> r.plan, log |-> LogEntry(p, r)]
    ELSE Rebuilt(p, r, try_optimize_jump(Front(r.plan)))
try_optimize_jump(p) == JumpBelow(p, OnNode(p))

\* SplitUDFs::try_optimize: plan.transform_down.  The closure is applied to
\* the root, then the walk continues into the input of the node it returned.
RECURSIVE try_optimize(_)
WalkBelow(p, r) ==
    IF r.st # "ok" THEN [st |-> r.st, plan |-> <<>>, log |-> LogEntry(p, r)]
    ELSE IF Len(r.plan) = 1
    THEN [st |-> "ok", plan |-> r.plan, log |-> <<>>]
    ELSE Rebuilt(p, r, try_optimize(Front(r.plan)))
try_optimize(p) == WalkBelow(p, OnNode(p))

-----------------------------------------------------------------------------
(* Input plans                                                             *)

\* The input plans are built over a source with columns a and b from the
\* expressions below: trees of unary and binary UDFs and scalar functions
\* and of list_map over the column a and a literal, under aliases named c
\* at the root of a projection entry.

SourceColumns == <<"a", "b">>

Leaves == {Col("a"), Lit}

UnaryKinds == {"udf", "fn", "listmap"}

BinaryKinds == {"udf", "fn"}

\* The bodies of list_map: the rule looks beneath a list_map only for the
\* presence of a UDF and for the columns it reads.
ListMapBodies == {Col("a"), Fn("udf", <<Col("a")>>)}

\* A literal is the first input of a binary UDF, and a list_map has one of
\* the bodies above.
InputsOk(kind, cs) ==
    /\ \A i \in 1..Len(cs) :
           cs[i] = Lit => (kind = "udf" /\ i = 1 /\ Len(cs) = 2)
    /\ kind = "listmap" => cs[1] \in ListMapBodies

\* TreeTable(n)[m], m <= n: the expressions with exactly m nodes and no alias.
RECURSIVE TreeTable(_)
TreeTable(n) ==
    IF n = 1 THEN <<Leaves>>
    ELSE LET t == TreeTable(n - 1)
         IN Append(t,
                {x \in {Fn(kind, <<c>>) : kind \in UnaryKinds, c \in t[n - 1]} :
                     InputsOk(x.k, x.c)}
                \cup UNION {{x \in {Fn(kind, <<l, r>>) :
                                       kind \in BinaryKinds,
                                       l \in t[i], r \in t[n - 1 - i]} :
                                 InputsOk(x.k, x.c)} :
                            i \in 1..(n - 2)})

\* RootTable(n)[m]: the projection entries with exactly m nodes, a tree under
\* a chain of aliases.
RECURSIVE RootTable(_)
RootTable(n) ==
    IF n = 1 THEN <<Leaves>>
    ELSE LET t == RootTable(n - 1)
         IN Append(t, TreeTable(n)[n] \cup {Alias(e, "c") : e \in t[n - 1]})

Roots == RootTable(MaxNodes)

OutputNames == {"a", "literal", "c"}

\* NamedTable(name, closed, n)[m], m <= n: the entries of Roots[m] called
\* name; with closed, only those that read no column.
RECURSIVE NamedTable(_, _, _)
NamedTable(name, closed, n) ==
    IF n = 0 THEN <<>>
    ELSE Append(NamedTable(name, closed, n - 1),
                {x \in Roots[n] :
                    /\ Name(x) = name
                    /\ closed => get_required_columns(x) = <<>>})

RootsA == NamedTable("a", FALSE, MaxNodes)

RootsLiteral == NamedTable("literal", FALSE, MaxNodes)

RootsC == NamedTable("c", FALSE, MaxNodes)

ClosedLiteral == NamedTable("literal", TRUE, MaxNodes)

ClosedC == NamedTable("c", TRUE, MaxNodes)

\* The projection entries of m nodes called name that resolve against schema.
\* The only column an entry reads is "a", and only entries that read it are
\* called "a".
Entries(name, m, schema) ==
    IF "a" \in Range(schema)
    THEN (IF name = "a" THEN RootsA[m]
          ELSE IF name = "c" THEN RootsC[m] ELSE RootsLiteral[m])
    ELSE (IF name = "a" THEN {}
          ELSE IF name = "c" THEN ClosedC[m] ELSE ClosedLiteral[m])

\* The projection [udf(a), fn(list_map(a), fn(udf(a))) AS c]: in its second
\* expression a list_map is visited before a UDF that is not an input of
\* the root.  It has more than MaxNodes nodes.
ListMapBeforeUdfExprs ==
    <<Fn("udf", <<Col("a")>>),
      Alias(Fn("fn", <<Fn("listmap", <<Col("a")>>),
                       Fn("fn", <<Fn("udf", <<Col("a")>>)>>)>>), "c")>>

\* The projection [foo(foo(a) + foo(b)) AS c]: the inputs of its UDFs read
\* both columns of the source.
IntermediateStatelessExprs ==
    <<Alias(Fn("udf", <<Fn("fn", <<Fn("udf", <<Col("a")>>),
                                   Fn("udf", <<Col("b")>>)>>)>>), "c")>>

\* Input plans beyond the bounds.
ScenarioPlans ==
    {<<Source(SourceColumns), Project(ListMapBeforeUdfExprs)>>,
     <<Source(SourceColumns), Project(IntermediateStatelessExprs)>>}

-----------------------------------------------------------------------------
(* The rule as a state machine                                             *)

NoResult == [st |-> "none", plan |-> <<>>, log |-> <<>>]

\* No rewriter was dropped yet.
NoKept == [nc |-> <<>>, flag |-> FALSE]

RECURSIVE Concat(_)
Concat(ss) == IF ss = <<>> THEN <<>> ELSE Head(ss) \o Concat(Tail(ss))

\* The expressions one invocation of split_projection handed to a
\* TruncateAnyUDFChildren, with the stage and expression indices, in order.
AnyRewritesOf(c) ==
    [j \in 1..Len(SelectSeq([i \in 1..Len(c.routes) |-> i],
                            LAMBDA i : c.routes[i] = "any")) |->
        [e |-> c.exprs[SelectSeq([i \in 1..Len(c.routes) |-> i],
                                 LAMBDA i : c.routes[i] = "any")[j]],
         s |-> c.depth,
         p |-> SelectSeq([i \in 1..Len(c.routes) |-> i],
                         LAMBDA i : c.routes[i] = "any")[j] - 1]]

\* The same for a whole application r of the rule, in the order made.
AnyRewrites(r) ==
    Concat([i \in 1..Len(r.log) |->
               Concat([j \in 1..Len(r.log[i].calls) |->
                          AnyRewritesOf(r.log[i].calls[j])])])

\* The fields of the TruncateAnyUDFChildren dropped last when the
\* application r returns; old when r used none.
Dropped(r, old) ==
    IF AnyRewrites(r) = <<>> THEN old
    ELSE [nc |-> RewriteAny(Last(AnyRewrites(r)).e,
                            TruncateAnyUDFChildrenNew,
                            Last(AnyRewrites(r)).s,
                            Last(AnyRewrites(r)).p).st.nc,
          flag |-> RewriteAny(Last(AnyRewrites(r)).e,
                              TruncateAnyUDFChildrenNew,
                              Last(AnyRewrites(r)).s,
                              Last(AnyRewrites(r)).p).st.flag]

\* The input plans: on the source, at most depth nodes, each an opaque node
\* or a projection that resolves against its input and whose output names
\* are pairwise distinct, with budget nodes in total.
RECURSIVE InitPlan(_, _, _)
RECURSIVE InitProjection(_, _, _, _)
InitPlan(below, budget, depth) ==
    \/ plan = below
    \/ /\ depth > 0
       /\ budget >= 1
       /\ InitPlan(Append(below, Opaque), budget - 1, depth - 1)
    \/ /\ depth > 0
       /\ InitProjection(below, <<>>, budget, depth)
InitProjection(below, es, budget, depth) ==
    \/ /\ es # <<>>
       /\ InitPlan(Append(below, Project(es)), budget, depth - 1)
    \/ \E m \in 1..budget :
           \E name \in OutputNames \ Range(Names(es)) :
               \E e \in Entries(name, m, Schema(below)) :
                   InitProjection(below, Append(es, e), budget - m, depth)

\* No rewriter has been handed an expression.
NoRewrite == [by |-> "none", e |-> Lit, st |-> RootState(<<>>, <<>>)]

RewriterIdle ==
    /\ subject = Lit
    /\ at_stage = 0
    /\ at_expr = 0
    /\ rewritten = NoRewrite

\* No decoder has been constructed.
DecoderIdle ==
    /\ video_src = "none"
    /\ task = "unspawned"
    /\ reader = "none"
    /\ unread = 0
    /\ read_log = <<>>
    /\ npackets = 0
    /\ cnt = 0
    /\ chan = <<>>
    /\ rx = "none"
    /\ got = <<>>
    /\ ending = "running"
    /\ sent = <<>>
    /\ send_errors = 0
    /\ ctor = "idle"
    /\ meta = "none"
    /\ meta_reader = "none"
    /\ meta_unread = 0

Init ==
    /\ \/ InitPlan(<<Source(SourceColumns)>>, MaxNodes, MaxPlanNodes)
       \/ plan \in ScenarioPlans
    /\ pc = "start"
    /\ res = NoResult
    /\ res2 = NoResult
    /\ res3 = NoResult
    /\ kept = NoKept
    /\ RewriterIdle
    /\ DecoderIdle

\* One application of the rule to the plan.
Optimize ==
    /\ pc = "start"
    /\ res' = try_optimize(plan)
    /\ kept' = Dropped(res', kept)
    /\ pc' = IF res'.st = "ok" THEN "optimized" ELSE "failed"
    /\ UNCHANGED <<plan, res2, res3>>
    /\ UNCHANGED rewriterVars
    /\ UNCHANGED decoderVars

\* A second application, to the output of the first.
Reoptimize ==
    /\ pc = "optimized"
    /\ res2' = try_optimize(res.plan)
    /\ kept' = Dropped(res2', kept)
    /\ pc' = "reoptimized"
    /\ UNCHANGED <<plan, res, res3>>
    /\ UNCHANGED rewriterVars
    /\ UNCHANGED decoderVars

\* A later application of the rule to the input plan of the first, after
\* the earlier applications have completed or failed.
Rerun ==
    /\ pc \in {"reoptimized", "failed"}
    /\ res3' = try_optimize(plan)
    /\ kept' = Dropped(res3', kept)
    /\ pc' = "rerun"
    /\ UNCHANGED <<plan, res, res2>>
    /\ UNCHANGED rewriterVars
    /\ UNCHANGED decoderVars

Next == Optimize \/ Reoptimize \/ Rerun

Spec == Init /\ [][Next]_vars

-----------------------------------------------------------------------------
(* The rewriters as a state machine                                        *)

\* The rule is not running.
RuleIdle ==
    /\ plan = <<>>
    /\ pc = "idle"
    /\ res = NoResult
    /\ res2 = NoResult
    /\ res3 = NoResult
    /\ kept = NoKept

\* The expressions a rewriter is handed: the entries of the input plans.
Exprs == UNION {Roots[m] : m \in 1..MaxNodes}

\* Bound on the stage and expression indices of a rewriter.
MaxIdx == 1

InitRewriter ==
    /\ RuleIdle
    /\ subject \in Exprs
    /\ at_stage \in 0..MaxIdx
    /\ at_expr \in 0..MaxIdx
    /\ rewritten = NoRewrite
    /\ DecoderIdle

\* split_projection's first branch: the alias chain of the root ends at a
\* UDF, and the expression is rewritten with a fresh TruncateRootUDF.
TruncateRoot ==
    /\ rewritten = NoRewrite
    /\ is_udf_and_should_truncate_children(subject)
    /\ rewritten' = [by |-> "root"] @@
                     RewriteRoot(subject, TruncateRootUDFNew,
                                 at_stage, at_expr)
    /\ UNCHANGED <<subject, at_stage, at_expr>>
    /\ UNCHANGED ruleVars
    /\ UNCHANGED decoderVars

\* split_projection's second branch: a UDF somewhere in the tree, and the
\* expression is rewritten with a fresh TruncateAnyUDFChildren.
TruncateAny ==
    /\ rewritten = NoRewrite
    /\ ~is_udf_and_should_truncate_children(subject)
    /\ exists_udf(subject)
    /\ rewritten' = [by |-> "any"] @@
                     RewriteAny(subject, TruncateAnyUDFChildrenNew,
                                at_stage, at_expr)
    /\ UNCHANGED <<subject, at_stage, at_expr>>
    /\ UNCHANGED ruleVars
    /\ UNCHANGED decoderVars

NextRewriter == TruncateRoot \/ TruncateAny

RewriterSpec == InitRewriter /\ [][NextRewriter]_vars

-----------------------------------------------------------------------------
(* The video decoder as a state machine                                    *)
(* (src/daft-video/src/decoder.rs, src/daft-video/src/buffer.rs)           *)

\* Bound on the reads the AVIO context has still to make when the decode
\* task opens its input.
MaxUnread == 2

\* Bound on the packets the demuxer yields.
MaxPackets == 2

\* Bound on the frame counter.
MaxCnt == 3

\* Bound on the calls of next_frame.
MaxCalls == 4

\* The messages of the frame channel: Result<VideoFrame, VideoError>.
OkFrame(n) == [ok |-> TRUE, frame_number |-> n]
ErrMessage == [ok |-> FALSE, frame_number |-> 0]

\* The results of next_frame: Result<Option<VideoFrame>, VideoError>.
OkSome(n) == [k |-> "Some", frame_number |-> n]
OkNone == [k |-> "None", frame_number |-> 0]
ErrResult == [k |-> "Err", frame_number |-> 0]

\* Option<Result<T, E>>::transpose on a received message.
transpose(m) == IF m.ok THEN OkSome(m.frame_number) ELSE ErrResult

\* UnboundedReceiver::recv on a channel that holds a message: the oldest.
recv(ch) == [msg |-> Head(ch), rest |-> Tail(ch)]

\* Faulty variant of Ends below: an error of the task is sent on the channel.
EndsReporting(kind) ==
    /\ task' = "done"
    /\ ending' = kind
    /\ chan' = IF kind = "error" /\ rx = "open" THEN Append(chan, ErrMessage)
               ELSE chan

\* decode_frame returns: the result of its closure is discarded and tx is
\* dropped, whatever the closure returned.
Ends(kind) ==
    /\ task' = "done"
    /\ ending' = kind
    /\ chan' = chan

\* The task goes on: nothing is sent and tx stays.
Continues(to) ==
    /\ task' = to
    /\ ending' = ending
    /\ chan' = chan

\* tx.send(..).is_err(): the receiver is gone, and the closure returns.
SendFailed == Ends("closed")

InitDecoder ==
    /\ RuleIdle
    /\ RewriterIdle
    /\ DecoderIdle

\* The variables of the decode task and of the consumer.
taskVars ==
    <<task, reader, unread, npackets, cnt, chan, rx, got, ending, sent,
      send_errors>>

\* FfmpegDecoder::new up to its await: ffmpeg init, which may fail, then
\* detect_metadata on a copy of the source is handed to spawn_blocking.
New ==
    /\ ctor = "idle"
    /\ meta \in {"none", "done", "failed"}
    /\ \E s \in {"File", "Bytes"} :
           /\ video_src' = s
           /\ \/ /\ ctor' = "failed"
                 /\ UNCHANGED <<meta, meta_reader, meta_unread>>
              \/ /\ ctor' = "awaiting"
                 /\ meta' = "input"
                 /\ meta_reader' = "none"
                 /\ \E u \in 0..MaxUnread :
                        /\ s = "File" => u = 0
                        /\ meta_unread' = u
    /\ UNCHANGED read_log
    /\ UNCHANGED taskVars
    /\ UNCHANGED <<ruleVars, rewriterVars>>

\* detect_metadata called on its own, as the public function it is: the same
\* steps follow as when new awaits it.
DetectMetadata ==
    /\ ctor = "idle"
    /\ meta = "none"
    /\ \E s \in {"File", "Bytes"} :
       \E u \in 0..MaxUnread :
           /\ s = "File" => u = 0
           /\ video_src' = s
           /\ meta_unread' = u
    /\ meta' = "input"
    /\ UNCHANGED <<ctor, meta_reader, read_log>>
    /\ UNCHANGED taskVars
    /\ UNCHANGED <<ruleVars, rewriterVars>>

\* detect_metadata on a File: ffmpeg_next::format::input.
MetadataFormatInput ==
    /\ meta = "input"
    /\ video_src = "File"
    /\ meta' \in {"streams", "failed"}
    /\ UNCHANGED <<video_src, ctor, meta_reader, meta_unread, read_log>>
    /\ UNCHANGED taskVars
    /\ UNCHANGED <<ruleVars, rewriterVars>>

\* detect_metadata on Bytes: buffer::input up to avformat_open_input.  When
\* malloc fails there is no MemReader yet; when a later allocation fails the
\* MemReader is dropped with the return.
MetadataBufferInput ==
    /\ meta = "input"
    /\ video_src = "Bytes"
    /\ \/ /\ meta' = "probe"
          /\ meta_reader' = "alive"
       \/ /\ meta' = "failed"
          /\ meta_reader' \in {meta_reader, "dropped"}
    /\ UNCHANGED <<video_src, ctor, meta_unread, read_log>>
    /\ UNCHANGED taskVars
    /\ UNCHANGED <<ruleVars, rewriterVars>>

\* read_packet, invoked by avformat_open_input or avformat_find_stream_info
\* while the buffer::input of detect_metadata runs.
MetadataReadPacket ==
    /\ meta = "probe"
    /\ meta_unread > 0
    /\ read_log' = Append(read_log, meta_reader)
    /\ meta_unread' = meta_unread - 1
    /\ UNCHANGED <<video_src, ctor, meta, meta_reader>>
    /\ UNCHANGED taskVars
    /\ UNCHANGED <<ruleVars, rewriterVars>>

\* The buffer::input of detect_metadata returns, Ok(Input) or Err: its
\* local MemReader is dropped.
MetadataInputReturn ==
    /\ meta = "probe"
    /\ meta_reader' = "dropped"
    /\ meta' \in {"streams", "failed"}
    /\ UNCHANGED <<video_src, ctor, meta_unread, read_log>>
    /\ UNCHANGED taskVars
    /\ UNCHANGED <<ruleVars, rewriterVars>>

\* The rest of detect_metadata: the best video stream, the decoder and the
\* fields of VideoMetadata, read from the Input without further I/O; the
\* Input is dropped with the return.
MetadataStreams ==
    /\ meta = "streams"
    /\ meta' \in {"done", "failed"}
    /\ UNCHANGED <<video_src, ctor, meta_reader, meta_unread, read_log>>
    /\ UNCHANGED taskVars
    /\ UNCHANGED <<ruleVars, rewriterVars>>

\* FfmpegDecoder::new after its await.  On Ok(meta) the channel is created,
\* decode_frame is handed to spawn_blocking with the source and tx, and the
\* decoder is returned with rx; on an error new returns it and no decoder
\* exists.
Spawn ==
    /\ ctor = "awaiting"
    /\ \/ /\ meta = "done"
          /\ ctor' = "built"
          /\ task' = "input"
          /\ rx' = "open"
          /\ \E u \in 0..MaxUnread :
                 /\ video_src = "File" => u = 0
                 /\ unread' = u
       \/ /\ meta = "failed"
          /\ ctor' = "failed"
          /\ UNCHANGED <<task, rx, unread>>
    /\ UNCHANGED <<video_src, meta, meta_reader, meta_unread, read_log>>
    /\ UNCHANGED <<reader, npackets, cnt, chan, got, ending, sent, send_errors>>
    /\ UNCHANGED <<ruleVars, rewriterVars>>

\* decode_frame on a File: ffmpeg_next::format::input.
FormatInput ==
    /\ task = "input"
    /\ video_src = "File"
    /\ \/ Continues("streams")
       \/ Ends("error")
    /\ UNCHANGED <<video_src, reader, unread, read_log, npackets, cnt, rx, got,
                   sent, send_errors>>
    /\ UNCHANGED metadataVars
    /\ UNCHANGED <<ruleVars, rewriterVars>>

\* decode_frame on Bytes: buffer::input up to avformat_open_input.  The
\* MemReader is a local of buffer::input and the AVIO context is given a
\* pointer to it; an allocation that fails ends the call before or after.
BufferInput ==
    /\ task = "input"
    /\ video_src = "Bytes"
    /\ \/ /\ Continues("probe")
          /\ reader' = "alive"
       \/ /\ Ends("error")
          /\ reader' \in {reader, "dropped"}
    /\ UNCHANGED <<video_src, unread, read_log, npackets, cnt, rx, got, sent,
                   send_errors>>
    /\ UNCHANGED metadataVars
    /\ UNCHANGED <<ruleVars, rewriterVars>>

\* read_packet, invoked by avformat_open_input or avformat_find_stream_info
\* while buffer::input runs.
ReadPacket ==
    /\ task = "probe"
    /\ unread > 0
    /\ read_log' = Append(read_log, reader)
    /\ unread' = unread - 1
    /\ UNCHANGED <<video_src, task, reader, npackets, cnt, chan, rx, got,
                   ending, sent, send_errors>>
    /\ UNCHANGED metadataVars
    /\ UNCHANGED <<ruleVars, rewriterVars>>

\* buffer::input returns, Ok(Input) or Err: its local MemReader is dropped;
\* the AVIO context of a returned Input keeps the pointer.
InputReturn ==
    /\ task = "probe"
    /\ reader' = "dropped"
    /\ \/ Continues("streams")
       \/ Ends("error")
    /\ UNCHANGED <<video_src, unread, read_log, npackets, cnt, rx, got, sent,
                   send_errors>>
    /\ UNCHANGED metadataVars
    /\ UNCHANGED <<ruleVars, rewriterVars>>

\* The best video stream, the decoder and the scaler; then cnt = 0.
SelectStream ==
    /\ task = "streams"
    /\ \/ Continues("packets")
       \/ Ends("error")
    /\ cnt' = 0
    /\ UNCHANGED <<video_src, reader, unread, read_log, npackets, rx, got,
                   sent, send_errors>>
    /\ UNCHANGED metadataVars
    /\ UNCHANGED <<ruleVars, rewriterVars>>

\* One step of ictx.packets() and the head of the loop body.  For a Bytes
\* source the AVIO context may invoke read_packet for more data, k times in
\* the one step, on the MemReader that buffer::input dropped.  read_packet
\* then reads and writes the memory the MemReader occupied, which the
\* locals of decode_frame declared after the Input occupy now: the step
\* yields the data or anything else (a packet of another stream, a video
\* packet, a packet send_packet rejects, the end of the stream) and leaves
\* any value in cnt, or the process ends.
NextPacket ==
    /\ task = "packets"
    /\ \E k \in 0..unread :
           /\ k > 0 => video_src = "Bytes"
           /\ read_log' = read_log \o [i \in 1..k |-> reader]
           /\ unread' = unread - k
           /\ cnt' \in IF k > 0 THEN 0..MaxCnt ELSE {cnt}
           /\ \/ /\ npackets < MaxPackets
                 /\ npackets' = npackets + 1
                 /\ \/ Continues("packets")
                    \/ Continues("frames")
                    \/ Ends("error")
              \/ /\ npackets' = npackets
                 /\ Ends("eof")
              \/ /\ k > 0
                 /\ npackets' = npackets
                 /\ task' = "aborted"
                 /\ ending' = "abort"
                 /\ chan' = chan
    /\ UNCHANGED <<video_src, reader, rx, got, sent, send_errors>>
    /\ UNCHANGED metadataVars
    /\ UNCHANGED <<ruleVars, rewriterVars>>

\* One iteration of while dec.receive_frame(..).is_ok(): no frame and back
\* to the packets, or cnt += 1 and then an error of the scaler or of
\* RgbImage::from_raw, or the send of Ok(frame) with frame_number cnt.
ReceiveFrame ==
    /\ task = "frames"
    /\ \/ /\ Continues("packets")
          /\ UNCHANGED <<cnt, sent, send_errors>>
       \/ /\ cnt < MaxCnt
          /\ cnt' = cnt + 1
          /\ \/ /\ Ends("error")
                /\ UNCHANGED <<sent, send_errors>>
             \/ /\ rx = "open"
                /\ task' = task
                /\ ending' = ending
                /\ chan' = Append(chan, OkFrame(cnt + 1))
                /\ sent' = Append(sent, cnt + 1)
                /\ send_errors' = send_errors
             \/ /\ rx = "dropped"
                /\ SendFailed
                /\ sent' = sent
                /\ send_errors' = send_errors + 1
    /\ UNCHANGED <<video_src, reader, unread, read_log, npackets, rx, got>>
    /\ UNCHANGED metadataVars
    /\ UNCHANGED <<ruleVars, rewriterVars>>

\* next_frame: rx.recv().await.transpose().  recv yields the oldest message,
\* or None once the channel is empty and tx is dropped; it waits otherwise.
NextFrame ==
    /\ rx = "open"
    /\ task # "aborted"
    /\ Len(got) < MaxCalls
    /\ \/ /\ chan # <<>>
          /\ got' = Append(got, transpose(recv(chan).msg))
          /\ chan' = recv(chan).rest
       \/ /\ chan = <<>>
          /\ task = "done"
          /\ got' = Append(got, OkNone)
          /\ chan' = chan
    /\ UNCHANGED <<video_src, task, reader, unread, read_log, npackets, cnt,
                   rx, ending, sent, send_errors>>
    /\ UNCHANGED metadataVars
    /\ UNCHANGED <<ruleVars, rewriterVars>>

\* The FfmpegDecoder is dropped, and rx with the messages not yet received.
DropDecoder ==
    /\ rx = "open"
    /\ task # "aborted"
    /\ rx' = "dropped"
    /\ chan' = <<>>
    /\ UNCHANGED <<video_src, task, reader, unread, read_log, npackets, cnt,
                   got, ending, sent, send_errors>>
    /\ UNCHANGED metadataVars
    /\ UNCHANGED <<ruleVars, rewriterVars>>

NextDecoder ==
    \/ New
    \/ DetectMetadata
    \/ MetadataFormatInput
    \/ MetadataBufferInput
    \/ MetadataReadPacket
    \/ MetadataInputReturn
    \/ MetadataStreams
    \/ Spawn
    \/ FormatInput
    \/ BufferInput
    \/ ReadPacket
    \/ InputReturn
    \/ SelectStream
    \/ NextPacket
    \/ ReceiveFrame
    \/ NextFrame
    \/ DropDecoder

DecoderSpec == InitDecoder /\ [][NextDecoder]_vars

-----------------------------------------------------------------------------
(* Vocabulary of the properties                                            *)

Done == pc \in {"optimized", "reoptimized"}

\* The expression with every alias removed.
RECURSIVE StripAliases(_)
StripAliases(e) ==
    IF e.k = "alias" THEN StripAliases(e.c[1])
    ELSE [e EXCEPT !.c = [i \in 1..Len(e.c) |-> StripAliases(e.c[i])]]

\* The value of column name in env, a sequence of [n, e] pairs.
Lookup(env, name) ==
    IF \E i \in 1..Len(env) : env[i].n = name
    THEN env[CHOOSE i \in 1..Len(env) :
                 /\ env[i].n = name
                 /\ \A j \in 1..(i - 1) : env[j].n # name].e
    ELSE Fn("unresolved", <<>>)

\* e with every column replaced by the expression that produces it.
RECURSIVE Substitute(_, _)
Substitute(e, env) ==
    IF e.k = "col" THEN Lookup(env, e.n)
    ELSE IF e.k = "alias" THEN Substitute(e.c[1], env)
    ELSE [e EXCEPT !.c = [i \in 1..Len(e.c) |-> Substitute(e.c[i], env)]]

\* The output columns of a plan as expressions over the columns of its
\* source, aliases removed.
RECURSIVE Denotation(_)
Denotation(p) ==
    IF Len(p) = 1
    THEN [i \in 1..Len(p[1].exprs) |-> [n |-> p[1].exprs[i].n, e |-> p[1].exprs[i]]]
    ELSE LET env == Denotation(Front(p))
             out == Last(p).exprs \o Last(p).udf
         IN IF Last(p).k = "Opaque" THEN env
            ELSE [i \in 1..Len(out) |->
                     [n |-> Name(out[i]), e |-> Substitute(out[i], env)]]

Values(p) == [i \in 1..Len(Denotation(p)) |-> Denotation(p)[i].e]

\* The projection a log entry replaced, on its input.
Original(entry) == Append(entry.input, Project(entry.exprs))

\* A UDF node that is not beneath a list_map.
RECURSIVE UdfOutsideListMap(_)
UdfOutsideListMap(e) ==
    \/ is_udf(e)
    \/ /\ ~is_list_map(e)
       /\ \E i \in 1..Len(e.c) : UdfOutsideListMap(e.c[i])

RECURSIVE CountUdfs(_)
RECURSIVE CountUdfsOf(_, _)
CountUdfs(e) == (IF is_udf(e) THEN 1 ELSE 0) + CountUdfsOf(e.c, 1)
CountUdfsOf(cs, i) ==
    IF i > Len(cs) THEN 0 ELSE CountUdfs(cs[i]) + CountUdfsOf(cs, i + 1)

RECURSIVE HasListMap(_)
HasListMap(e) == is_list_map(e) \/ \E i \in 1..Len(e.c) : HasListMap(e.c[i])

\* The expressions of the Project nodes of the input plan.
InputExprs == UNION {Range(plan[i].exprs) : i \in {j \in 1..Len(plan) : plan[j].k = "Project"}}

\* The expression beneath the aliases at its root.
RECURSIVE UnderAliases(_)
UnderAliases(e) == IF e.k = "alias" THEN UnderAliases(e.c[1]) ELSE e

\* Every subtree of e, e included.
RECURSIVE Subtrees(_)
Subtrees(e) == {e} \cup UNION {Subtrees(e.c[i]) : i \in 1..Len(e.c)}

ListMapsOf(es) == {t \in UNION {Subtrees(e) : e \in es} : is_list_map(t)}

\* The nodes of the output plan and their expressions.
UDFProjects == {i \in 1..Len(res.plan) : res.plan[i].k = "UDFProject"}
Projects == {i \in 1..Len(res.plan) : res.plan[i].k = "Project"}
OutputExprs ==
    UNION {Range(res.plan[i].exprs) \cup Range(res.plan[i].udf) :
               i \in 2..Len(res.plan)}

\* The children lifted during the invocation, each with the index of the
\* replaced Project it was lifted for.
LiftedChildren ==
    UNION {{[project |-> i, g |-> res.log[i].gen[j]] :
                j \in 1..Len(res.log[i].gen)} : i \in 1..Len(res.log)}

Prefix(kind) ==
    IF kind = "root" THEN "__TruncateRootUDF_" ELSE "__TruncateAnyUDFChildren_"

\* The number of inputs before g's child that the rewriter lifts as well.
LiftedBefore(g) ==
    Cardinality({j \in 1..g.arg :
                    IF g.kind = "root" THEN requires_computation(g.inputs[j])
                    ELSE is_udf(g.inputs[j])})

NoUdfInPlan == \A e \in InputExprs : CountUdfs(e) = 0

-----------------------------------------------------------------------------
(* Properties                                                              *)

\* C1: every replaced projection is equivalent to its replacement: with the
\* intermediate columns substituted stage by stage down to the input, output
\* position i of the replacement is the original exprs[i] over the input's
\* columns, aliases ignored.
SemanticEquivalence ==
    Done => \A i \in 1..Len(res.log) :
                Values(res.log[i].repl) = Values(Original(res.log[i]))

\* C2: every UDFProject of the output has exactly one UDF, at the root once
\* the enclosing aliases are ignored, and passes through bare columns only.
OneRootUdf ==
    Done => \A i \in UDFProjects :
                /\ Len(res.plan[i].udf) = 1
                /\ CountUdfs(res.plan[i].udf[1]) = 1
                /\ is_udf(UnderAliases(res.plan[i].udf[1]))
                /\ \A j \in 1..Len(res.plan[i].exprs) :
                       res.plan[i].exprs[j].k = "col"

\* C2 witness: an expression with a list_map and a UDF outside it was
\* rewritten into a chain with a UDFProject.
OneRootUdfWitness ==
    /\ Done
    /\ UDFProjects # {}
    /\ \E e \in InputExprs : HasListMap(e) /\ UdfOutsideListMap(e)
    /\ \E i \in UDFProjects : Len(res.plan[i].exprs) > 0

\* C3: no Project of the output plan has an expression with a UDF outside
\* a list_map.
NoUdfLeak ==
    Done => \A i \in Projects :
                \A j \in 1..Len(res.plan[i].exprs) :
                    ~UdfOutsideListMap(res.plan[i].exprs[j])

\* C4: the names generated during one invocation are pairwise distinct: two
\* different lifted children never receive the same name.
DistinctNames ==
    Done => \A x, y \in LiftedChildren :
                x.g.name = y.g.name => x.g.e = y.g.e

\* C5: rewriting never builds a node that references a column missing from
\* the schema of its input, and every Project and UDFProject of the output
\* resolves against the schema of its input.
SchemaClosed ==
    /\ res.st # "error"
    /\ Done => \A i \in 2..Len(res.plan) :
                   Resolves(res.plan[i].exprs \o res.plan[i].udf,
                            Schema(SubSeq(res.plan, 1, i - 1)))

\* C6: the top of every replacement is a Project of the bare columns
\* Column(exprs[i].name), one per original expression and in their order, so
\* the output names of the replacement are those of the replaced projection.
FinalSelect ==
    Done => \A i \in 1..Len(res.log) :
                LET exprs == res.log[i].exprs
                    repl == res.log[i].repl
                IN /\ Last(repl) =
                          Project([j \in 1..Len(exprs) |-> Col(Name(exprs[j]))])
                   /\ Schema(repl) = Schema(Original(res.log[i]))

\* C6 witness: a replaced projection with two expressions, one of them an
\* aliased one.
FinalSelectWitness ==
    /\ Done
    /\ \E i \in 1..Len(res.log) :
           /\ Len(res.log[i].exprs) >= 2
           /\ \E j \in 1..Len(res.log[i].exprs) :
                  /\ res.log[i].exprs[j].k = "alias"
                  /\ Name(res.log[i].exprs[j]) # Name(res.log[i].exprs[j].c[1])

\* C7: every list_map of a projection expression is in the output plan with
\* its whole subtree unchanged, and the output plan has no other list_map:
\* nothing beneath a list_map is lifted or replaced by a column.
ListMapOpacity ==
    Done => /\ ListMapsOf(InputExprs) \subseteq ListMapsOf(OutputExprs)
            /\ ListMapsOf(OutputExprs) \subseteq ListMapsOf(InputExprs)

\* C8 as stated: a generated name is prefix s-p-k with s the recursion depth
\* of the lifting stage, p the position of the containing expression in the
\* stage's projection list and k the argument index of the lifted child.
NameByArgumentIndex ==
    Done => \A x \in LiftedChildren :
                x.g.name = IntermediateName(Prefix(x.g.kind), x.g.stage,
                                            x.g.pos, x.g.arg)

\* C8 amended: s and p as stated, and k is the number of inputs of the same
\* node lifted before the child (these are the inputs that need computation
\* under a root UDF, and the UDF inputs under another node).
NameByLiftedCount ==
    Done => \A x \in LiftedChildren :
                x.g.name = IntermediateName(Prefix(x.g.kind), x.g.stage,
                                            x.g.pos, LiftedBefore(x.g))

\* C8 witness: children lifted by both rewriters, at depth 0 and deeper, one
\* of them after an input that is not lifted.
NameByLiftedCountWitness ==
    /\ Done
    /\ \E x, y \in LiftedChildren :
           /\ x.g.kind = "any" /\ x.g.arg # LiftedBefore(x.g)
           /\ y.g.kind = "root" /\ y.g.stage > 0 /\ y.g.pos > 0

\* C9: applying the rule to its own output changes no node.
Idempotence ==
    pc = "reoptimized" =>
        /\ res2.st = "ok"
        /\ res2.plan = res.plan
        /\ res2.log = <<>>

\* C9 witness: the rule was applied again to a plan in which the first
\* application had replaced two projections.
IdempotenceWitness ==
    /\ pc = "reoptimized"
    /\ Len(res.log) = 2
    /\ res.plan # plan

\* C10: a plan without a UDF in any Project is returned unchanged.
NoUdfUnchanged ==
    (pc # "start" /\ NoUdfInPlan) =>
        /\ res.st = "ok"
        /\ res.plan = plan
        /\ res.log = <<>>

\* C10 witness: the rule ran on a plan whose projection has computed
\* expressions without an alias, a list_map among them, and no UDF.
NoUdfUnchangedWitness ==
    /\ pc = "optimized"
    /\ NoUdfInPlan
    /\ \E e \in InputExprs : e.k = "fn"
    /\ \E e \in InputExprs : HasListMap(e)

-----------------------------------------------------------------------------
(* Termination                                                             *)

Max(S) == CHOOSE x \in S : \A y \in S : y <= x

\* The number of nodes on the path from the root of e down to its deepest
\* UDF, 0 when e has no UDF.
RECURSIVE UdfDepth(_)
UdfDepth(e) ==
    IF ~exists_udf(e) THEN 0
    ELSE 1 + Max({0} \cup {UdfDepth(e.c[i]) : i \in 1..Len(e.c)})

\* The UDF nesting measure of a projection list: the deepest UDF of its
\* expressions, counted beneath the aliases at their roots.
UdfNesting(exprs) ==
    Max({0} \cup {UdfDepth(UnderAliases(exprs[i])) : i \in 1..Len(exprs)})

\* The invocations of recursive_optimize_project made for replaced Projects.
CallChains == {res.log[i].calls : i \in 1..Len(res.log)}

\* C11: the invocations of recursive_optimize_project made for a Project
\* are at depths 0, 1, 2, ...; every recursive invocation is on a list with
\* a strictly smaller UDF nesting measure than the list of its caller, never
\* on a list of column references only, and its caller's list has a UDF
\* outside list_map.
StagesDecrease ==
    Done => \A calls \in CallChains :
                /\ \A j \in 1..Len(calls) : calls[j].depth = j - 1
                /\ \A j \in 2..Len(calls) :
                       /\ UdfNesting(calls[j].exprs)
                              < UdfNesting(calls[j - 1].exprs)
                       /\ ~AllColumns(calls[j].exprs)
                       /\ \E e \in Range(calls[j - 1].exprs) :
                              UdfOutsideListMap(e)

\* C11 witness: a Project was replaced after three nested invocations, the
\* innermost one ending on a list without a UDF.
StagesDecreaseWitness ==
    /\ Done
    /\ \E calls \in CallChains :
           /\ Len(calls) = 3
           /\ UdfNesting(calls[3].exprs) = 0

-----------------------------------------------------------------------------
(* Determinism                                                             *)

-----------------------------------------------------------------------------
(* Scenarios                                                               *)

\* The replaced Projects of the invocation.
Replaced == Range(res.log)

Without(names, name) == SelectSeq(names, LAMBDA n : n # name)

foo(e) == Fn("udf", <<e>>)

add(l, r) == Fn("fn", <<l, r>>)

\* The projection [a, foo(a) AS c].
HappyPathExprs == <<Col("a"), Alias(foo(Col("a")), "c")>>

\* The columns of an input after a pre-project that computes the column a:
\* the other columns in their order, then a.
HappyPathColumns(schema) == Append(Without(schema, "a"), "a")

\* C13: the projection [a, foo(a) AS c] is replaced by exactly three nodes
\* on top of its input: the Project of the input's columns (a last), one
\* UDFProject of foo(a) AS c that passes these columns through (all but a
\* column named c), and the final Project [a, c]; there is no recursive
\* invocation and no generated name.
HappyPath ==
    Done => \A x \in Replaced :
                x.exprs = HappyPathExprs =>
                    /\ x.repl = x.input \o
                           <<Project(ColumnsOf(
                                 HappyPathColumns(Schema(x.input)))),
                             UDFProject(
                                 HappyPathExprs[2],
                                 ColumnsOf(Without(
                                     HappyPathColumns(Schema(x.input)),
                                     "c"))),
                             Project(<<Col("a"), Col("c")>>)>>
                    /\ Len(x.calls) = 1
                    /\ x.gen = <<>>

\* C13 witness: [a, foo(a) AS c] was replaced over an input whose only
\* column is a.
HappyPathWitness ==
    /\ Done
    /\ \E x \in Replaced :
           /\ x.exprs = HappyPathExprs
           /\ Schema(x.input) = <<"a">>

\* The projection [a, foo(foo(a)) AS c] and the name of its inner UDF.
SerialExprs == <<Col("a"), Alias(foo(foo(Col("a"))), "c")>>

SerialName == "__TruncateRootUDF_0-1-0__"

\* n UDFs applied one to the result of the other, innermost on column a.
RECURSIVE Tower(_)
Tower(n) == IF n = 0 THEN Col("a") ELSE foo(Tower(n - 1))

\* The projection of Tower(n) AS c at position p, after p columns a.
TowerExprs(n, p) ==
    (IF p = 1 THEN <<Col("a")>> ELSE <<>>) \o <<Alias(Tower(n), "c")>>

\* The name of the i-th UDF of the tower, innermost first: it is lifted at
\* depth n - 1 - i and the outermost keeps the name c.
TowerName(n, i, p) ==
    IF i = 0 THEN "a" ELSE IF i = n THEN "c"
    ELSE IntermediateName("__TruncateRootUDF_", n - 1 - i, p, 0)

\* The UDF expressions of the UDFProject nodes a replacement puts on top of
\* the input, lowest first.
UdfNodes(x) ==
    SelectSeq(SubSeq(x.repl, Len(x.input) + 1, Len(x.repl)),
              LAMBDA node : node.k = "UDFProject")
StageUdfs(x) == [i \in 1..Len(UdfNodes(x)) |-> UdfNodes(x)[i].udf[1]]

\* C14: [a, foo(foo(a)) AS c] is replaced by the chain Project[.., a] ->
\* UDFProject(foo(a) AS N) -> Project[a, N] -> Project[N, a] ->
\* UDFProject(foo(N) AS c) -> Project[a, c] with N = __TruncateRootUDF_0-1-0__,
\* the inner UDF upstream of the outer one, which reads N; and n directly
\* nested UDFs at position p yield n UDFProjects, innermost first, each
\* reading the column of the one before.
SerialUdfs ==
    Done => \A x \in Replaced :
        /\ x.exprs = SerialExprs =>
               x.repl = x.input \o
                   <<Project(ColumnsOf(HappyPathColumns(Schema(x.input)))),
                     UDFProject(Alias(foo(Col("a")), SerialName),
                                ColumnsOf(HappyPathColumns(Schema(x.input)))),
                     Project(<<Col("a"), Col(SerialName)>>),
                     Project(<<Col(SerialName), Col("a")>>),
                     UDFProject(Alias(foo(Col(SerialName)), "c"),
                                <<Col(SerialName), Col("a")>>),
                     Project(<<Col("a"), Col("c")>>)>>
        /\ \A n \in 1..MaxNodes, p \in {0, 1} :
               x.exprs = TowerExprs(n, p) =>
                   StageUdfs(x) =
                       [i \in 1..n |->
                           Alias(foo(Col(TowerName(n, i - 1, p))),
                                 TowerName(n, i, p))]

\* C14 witness: [a, foo(foo(a)) AS c] was replaced over an input whose only
\* column is a, by a chain with two UDFProjects.
SerialUdfsWitness ==
    /\ Done
    /\ \E x \in Replaced :
           /\ x.exprs = SerialExprs
           /\ Schema(x.input) = <<"a">>
           /\ Len(StageUdfs(x)) = 2

\* The truncated expressions with a UDF outside list_map of the stages of
\* calls[j..], deepest stage first, each stage in the order of its list.
RECURSIVE UdfStages(_, _)
UdfStages(calls, j) ==
    IF j > Len(calls) THEN <<>>
    ELSE UdfStages(calls, j + 1)
             \o SelectSeq(calls[j].truncated, UdfOutsideListMap)

\* C15: the UDFProjects of a replacement are the truncated expressions with
\* a UDF of its stages, each stage's in the order of its projection list with
\* the first one lowest; a UDFProject passes through every column of its
\* input's schema but one with the name of its own UDF expression; so within
\* a stage the column of an earlier UDFProject is passed through by every
\* later one.
UdfStageChaining ==
    Done =>
        /\ \A x \in Replaced : StageUdfs(x) = UdfStages(x.calls, 1)
        /\ \A i \in UDFProjects :
               res.plan[i].exprs =
                   ColumnsOf(Without(Schema(SubSeq(res.plan, 1, i - 1)),
                                     Name(res.plan[i].udf[1])))
        /\ \A i, k \in UDFProjects :
               (i < k /\ \A m \in i..k : m \in UDFProjects) =>
                   Col(Name(res.plan[i].udf[1])) \in Range(res.plan[k].exprs)

\* The names of the sum and of the two inner UDFs of
\* [foo(foo(a) + foo(b)) AS c].
SumName == "__TruncateRootUDF_0-0-0__"

LeftName == "__TruncateAnyUDFChildren_1-0-0__"

RightName == "__TruncateAnyUDFChildren_1-0-1__"

\* For [foo(foo(a) + foo(b)) AS c] depth 0 lifts the sum under the name
\* __TruncateRootUDF_0-0-0__ and depth 1 lifts the two inner UDFs under
\* __TruncateAnyUDFChildren_1-0-0__ and __TruncateAnyUDFChildren_1-0-1__; the
\* replacement has the two inner UDFProjects lowest, then the sum in a
\* Project without a UDF, then the outer UDFProject, then the select of c.
IntermediateStatelessChain ==
    \A x \in Replaced :
        x.exprs = IntermediateStatelessExprs =>
            /\ x.repl = x.input \o
                   <<Project(ColumnsOf(Schema(x.input))),
                     UDFProject(Alias(foo(Col("a")), LeftName),
                                ColumnsOf(Schema(x.input))),
                     UDFProject(Alias(foo(Col("b")), RightName),
                                ColumnsOf(Append(Schema(x.input), LeftName))),
                     Project(<<Col(LeftName), Col(RightName)>>),
                     Project(<<Col(LeftName), Col(RightName),
                               Alias(add(Col(LeftName), Col(RightName)),
                                     SumName)>>),
                     Project(<<Col(SumName)>>),
                     Project(<<Col(SumName)>>),
                     UDFProject(Alias(foo(Col(SumName)), "c"),
                                <<Col(SumName)>>),
                     Project(<<Col("c")>>)>>
            /\ [j \in 1..Len(x.gen) |-> <<x.gen[j].stage, x.gen[j].name>>]
                   = <<<<0, SumName>>, <<1, LeftName>>, <<1, RightName>>>>

\* The expressions between two UDF levels among the children lifted for x:
\* the inputs of a UDF that are not UDFs themselves and hold a UDF outside
\* list_map.
Combiners(x) ==
    {g \in Range(x.gen) :
         g.kind = "root" /\ ~is_udf(g.e) /\ UdfOutsideListMap(g.e)}

\* Node j of the replacement of x is a Project that evaluates the combiner
\* g, under its generated name, by an expression without a UDF outside
\* list_map.
EvaluatedStateless(x, g, j) ==
    /\ x.repl[j].k = "Project"
    /\ \E m \in 1..Len(x.repl[j].exprs) :
           /\ x.repl[j].exprs[m].k = "alias"
           /\ x.repl[j].exprs[m].n = g.name
           /\ ~UdfOutsideListMap(x.repl[j].exprs[m])

\* Every expression between two UDF levels is evaluated in a Project above
\* a UDFProject of the replacement and below the UDFProject that reads it.
CombinersBetween ==
    \A x \in Replaced : \A g \in Combiners(x) :
        \E j \in (Len(x.input) + 1)..Len(x.repl) :
            /\ EvaluatedStateless(x, g, j)
            /\ \E i \in (Len(x.input) + 1)..(j - 1) :
                   x.repl[i].k = "UDFProject"
            /\ \E k \in (j + 1)..Len(x.repl) :
                   /\ x.repl[k].k = "UDFProject"
                   /\ g.name \in
                          Range(get_required_columns(x.repl[k].udf[1]))

\* C16: [foo(foo(a) + foo(b)) AS c] at position 0 is replaced by the two
\* inner UDFProjects, then the sum __TruncateRootUDF_0-0-0__ of the lifted
\* __TruncateAnyUDFChildren_1-0-0__ and __TruncateAnyUDFChildren_1-0-1__ in
\* a Project without a UDF, then the outer UDFProject, then the select of c;
\* and in general an expression without a UDF of its own that lies between
\* two UDF levels is evaluated in a Project above the UDFProjects of the
\* inner UDFs and below the UDFProject of the outer UDF.
IntermediateStateless ==
    Done => (IntermediateStatelessChain /\ CombinersBetween)

\* A stateless expression with the input u after n - 1 columns: a + u for
\* n = 2 and a + a + u for n = 3.
SomeUdfChildren(n, u) ==
    IF n = 2 THEN add(Col("a"), u) ELSE add(add(Col("a"), Col("a")), u)

\* The name of the UDF input lifted from the expression at position p.
SomeUdfChildrenName(p) ==
    IF p = 1 THEN "__TruncateAnyUDFChildren_0-1-0__"
    ELSE "__TruncateAnyUDFChildren_0-0-0__"

\* The replacement of [e AS c] (p = 0) or [a, e AS c] (p = 1), where e has
\* the UDF input foo(a) and stateless is e with N in its place.
SomeUdfChildrenChain(input, stateless, p, N) ==
    input \o
        <<Project(ColumnsOf(HappyPathColumns(Schema(input)))),
          UDFProject(Alias(foo(Col("a")), N),
                     ColumnsOf(HappyPathColumns(Schema(input)))),
          Project(IF p = 1 THEN <<Col("a"), Col(N)>>
                  ELSE <<Col(N), Col("a")>>),
          Project(<<Col(N), Col("a"), Alias(stateless, "c")>>),
          Project((IF p = 1 THEN <<Col("a")>> ELSE <<>>) \o <<Col("c")>>)>>

-----------------------------------------------------------------------------
(* Entry aliasing                                                          *)

\* The list exprs with Alias(e, e.name) around every e that Wrap selects and
\* that is not an alias already.
AliasedWhere(exprs, Wrap(_)) ==
    [i \in 1..Len(exprs) |->
        IF Wrap(exprs[i]) /\ exprs[i].k # "alias"
        THEN Alias(exprs[i], Name(exprs[i]))
        ELSE exprs[i]]

\* A UDF anywhere in e, beneath a list_map or not.
UdfAnywhere(e) == CountUdfs(e) > 0

\* The output column of the un-aliased foo(foo(a)) in the replacements: the
\* outer UDF is computed under the name a and a is selected on top.
SerialNoAlias ==
    \A x \in Replaced :
        x.exprs = <<foo(foo(Col("a")))>> =>
            /\ Last(x.repl) = Project(<<Col("a")>>)
            /\ Name(Last(StageUdfs(x))) = "a"

\* C18 as stated: the projection handed to the splitter is the original one
\* with Alias(e, e.name) around exactly the expressions that have a UDF
\* outside list_map and are not aliases; the un-aliased foo(foo(a)) is output
\* as column a.
EntryAliasingOutsideListMap ==
    Done => /\ \A x \in Replaced :
                   x.calls[1].exprs = AliasedWhere(x.exprs, UdfOutsideListMap)
            /\ SerialNoAlias

\* C18 amended: Alias(e, e.name) is put around exactly the expressions that
\* have a UDF anywhere, beneath a list_map included, and are not aliases;
\* the un-aliased foo(foo(a)) is output as column a.
EntryAliasing ==
    Done => /\ \A x \in Replaced :
                   x.calls[1].exprs = AliasedWhere(x.exprs, UdfAnywhere)
            /\ SerialNoAlias

\* C18 witness: a replaced projection with an aliased expression that was
\* left as it is and an expression without an alias, its only UDF beneath a
\* list_map, that was wrapped.
EntryAliasingWitness ==
    /\ Done
    /\ \E x \in Replaced : \E i, j \in 1..Len(x.exprs) :
           /\ x.exprs[i].k = "alias"
           /\ x.calls[1].exprs[i] = x.exprs[i]
           /\ x.exprs[j].k # "alias"
           /\ UdfAnywhere(x.exprs[j])
           /\ ~UdfOutsideListMap(x.exprs[j])
           /\ x.calls[1].exprs[j] = Alias(x.exprs[j], Name(x.exprs[j]))

-----------------------------------------------------------------------------
(* Frame of the driver                                                     *)

\* The log entry of the n-th node of the input plan, if it was replaced.
ReplacedAt(n) == {x \in Replaced : Len(x.input) = n - 1}

\* What stands for the n-th node of the input plan in the output: the node
\* itself, or the chain its replacement put on top of its input.
ImageOf(n) ==
    IF ReplacedAt(n) = {} THEN <<plan[n]>>
    ELSE LET x == CHOOSE y \in ReplacedAt(n) : TRUE
         IN SubSeq(x.repl, n, Len(x.repl))

RECURSIVE ImageOfPlan(_)
ImageOfPlan(n) == IF n = 0 THEN <<>> ELSE ImageOfPlan(n - 1) \o ImageOf(n)

\* C19: the output plan is the input plan with the replaced Projects
\* exchanged for their chains: every other node is the same node at the same
\* place among the others; only Project nodes are replaced, by Project and
\* UDFProject nodes, and a replacement has the sub-plan under the original
\* Project as its bottom.
FrameOfDriver ==
    Done =>
        /\ res.plan = ImageOfPlan(Len(plan))
        /\ \A x \in Replaced :
               /\ Len(x.input) < Len(plan)
               /\ x.input = SubSeq(plan, 1, Len(x.input))
               /\ plan[Len(x.input) + 1] = Project(x.exprs)
               /\ Len(x.repl) > Len(x.input)
               /\ SubSeq(x.repl, 1, Len(x.input)) = x.input
               /\ \A i \in (Len(x.input) + 1)..Len(x.repl) :
                      x.repl[i].k \in {"Project", "UDFProject"}

\* C19 witness: a Project under a node of another kind was replaced, and
\* that node is the root of the output plan.
FrameOfDriverWitness ==
    /\ Done
    /\ Len(plan) = 3
    /\ plan[3] = Opaque
    /\ ReplacedAt(2) # {}
    /\ Last(res.plan) = Opaque
    /\ Len(res.plan) > 5

-----------------------------------------------------------------------------
(* Splitter routing                                                        *)

\* The invocations of split_projection made by the rule, for the Projects
\* it replaced and for the one it failed on.
Splits ==
    UNION {{c \in Range(x.calls) : c.routes # <<>>} : x \in Range(res.log)}

\* C20: split_projection sends an expression to TruncateAnyUDFChildren only
\* if it has a UDF outside every list_map; an expression that is not rooted
\* at a UDF and has no UDF outside list_map is not rewritten: it is pushed
\* unchanged into truncated and the columns it requires are in remaining.
SplitterRouting ==
    pc # "start" => \A c \in Splits : \A i \in 1..Len(c.exprs) :
        /\ c.routes[i] = "any" => UdfOutsideListMap(c.exprs[i])
        /\ ~UdfOutsideListMap(c.exprs[i]) =>
               /\ c.routes[i] = "none"
               /\ c.truncated[i] = c.exprs[i]
               /\ \A n \in Range(get_required_columns(c.exprs[i])) :
                      Col(n) \in Range(c.remaining)

-----------------------------------------------------------------------------
(* The rewriters                                                           *)

\* The UDF nodes of e that are neither beneath a list_map nor beneath
\* another UDF: each is an input of a node that is not a UDF.
RECURSIVE TopUdfs(_)
TopUdfs(e) ==
    IF is_udf(e) THEN {e}
    ELSE IF is_list_map(e) THEN {}
    ELSE UNION {TopUdfs(e.c[i]) : i \in 1..Len(e.c)}

\* u was pushed, aliased, onto new_children and the rewritten expression
\* reads the column of that alias.
LiftedAsColumn(u) ==
    \E i \in 1..Len(rewritten.st.nc) :
        /\ rewritten.st.nc[i].k = "alias"
        /\ rewritten.st.nc[i].c[1] = u
        /\ rewritten.st.nc[i].n \in Range(get_required_columns(rewritten.e))

\* C21: after TruncateAnyUDFChildren has rewritten an expression whose UDFs
\* lie strictly below its root, the rewritten expression has no UDF outside
\* a list_map, and every UDF that was an input of a node that is not a UDF
\* (outside list_map) is on new_children under an alias whose column the
\* rewritten expression reads, also when a list_map was visited before it.
AnyTruncation ==
    rewritten.by = "any" =>
        /\ ~UdfOutsideListMap(rewritten.e)
        /\ \A u \in TopUdfs(subject) : LiftedAsColumn(u)

\* The names of the aliases at the root of e, outermost first.
RECURSIVE AliasChain(_)
AliasChain(e) ==
    IF e.k = "alias" THEN <<e.n>> \o AliasChain(e.c[1]) ELSE <<>>

\* The number of entries of new_children equal to e.
TimesLifted(e) ==
    Cardinality({j \in 1..Len(rewritten.st.nc) : rewritten.st.nc[j] = e})

\* What TruncateRootUDF did to input i of the UDF: from is the UDF before
\* and to the UDF after the rewrite.
RootInputTruncated(from, to, i) ==
    /\ ~requires_computation(to.c[i])
    /\ ~requires_computation(from.c[i]) => to.c[i] = from.c[i]
    /\ from.c[i].k = "col" => TimesLifted(from.c[i]) = 1
    /\ requires_computation(from.c[i]) =>
           /\ to.c[i].k = "col"
           /\ TimesLifted(Alias(from.c[i], to.c[i].n)) = 1

\* C22: after TruncateRootUDF has rewritten an expression whose alias chain
\* ends at a UDF, the rewritten expression keeps the alias chain and the
\* UDF; every input of the UDF is a column or a literal; the inputs that
\* were columns or literals are kept; every input that requires computation
\* is replaced by a column N and is on new_children as Alias(input, N); and
\* a column input is on new_children once.
RootTruncation ==
    rewritten.by = "root" =>
        /\ AliasChain(rewritten.e) = AliasChain(subject)
        /\ is_udf(UnderAliases(rewritten.e))
        /\ Len(UnderAliases(rewritten.e).c) = Len(UnderAliases(subject).c)
        /\ \A i \in 1..Len(UnderAliases(subject).c) :
               RootInputTruncated(UnderAliases(subject),
                                  UnderAliases(rewritten.e), i)

\* TruncateRootUDF has rewritten an aliased UDF of a column and of an input
\* that requires computation.
RootTruncationWitness ==
    /\ rewritten.by = "root"
    /\ subject.k = "alias"
    /\ Len(UnderAliases(subject).c) = 2
    /\ UnderAliases(subject).c[1].k = "col"
    /\ requires_computation(UnderAliases(subject).c[2])

-----------------------------------------------------------------------------
(* The lists split_projection returns                                      *)

\* The new children the expression at index i of the invocation c asks for:
\* the new_children of the rewriter of its branch, or the columns it reads.
NewChildrenOf(c, i) ==
    IF c.routes[i] = "root"
    THEN RewriteRoot(c.exprs[i], RootState(<<>>, <<>>), c.depth, i - 1).st.nc
    ELSE IF c.routes[i] = "any"
    THEN RewriteAny(c.exprs[i], AnyState(<<>>, FALSE, FALSE, <<>>),
                    c.depth, i - 1).st.nc
    ELSE ColumnsOf(get_required_columns(c.exprs[i]))

\* The new children the expressions 1..i of c ask for, in that order.
RECURSIVE Asked(_, _)
Asked(c, i) ==
    IF i = 0 THEN <<>> ELSE Asked(c, i - 1) \o NewChildrenOf(c, i)

\* The entries of s[1..i] that are the first of their name, in order.
RECURSIVE FirstOfName(_, _)
FirstOfName(s, i) ==
    IF i = 0 THEN <<>>
    ELSE FirstOfName(s, i - 1)
         \o (IF \E j \in 1..(i - 1) : Name(s[j]) = Name(s[i])
             THEN <<>> ELSE <<s[i]>>)

FirstAsked(s) == FirstOfName(s, Len(s))

NamedIn(es, name) == {j \in 1..Len(es) : Name(es[j]) = name}

\* The projection [a, foo(a + foo(a)) AS c].
SameNamesExprs ==
    <<Col("a"), Alias(foo(add(Col("a"), foo(Col("a")))), "c")>>

\* C23: the remaining list of every invocation of split_projection has no
\* two entries of the same name and holds the new children in the order
\* they were first asked for, scanning the projection from left to right;
\* the column a, needed by both expressions of [a, foo(a + foo(a)) AS c] and
\* again at the stage below, appears exactly once in each remaining list.
RemainingDiscipline ==
    pc # "start" => \A c \in Splits :
        /\ \A i, j \in 1..Len(c.remaining) :
               Name(c.remaining[i]) = Name(c.remaining[j]) => i = j
        /\ c.remaining = FirstAsked(Asked(c, Len(c.routes)))
        /\ (\E d \in Splits : d.depth = 0 /\ d.exprs = SameNamesExprs) =>
               /\ Cardinality(NamedIn(c.remaining, "a")) = 1
               /\ Col("a") \in Range(c.remaining)

\* The rule has split [a, foo(a + foo(a)) AS c], and in the invocations
\* of split_projection below the first both expressions ask for column a.
RemainingDisciplineWitness ==
    /\ Done
    /\ \E d \in Splits : d.depth = 0 /\ d.exprs = SameNamesExprs
    /\ \A c \in Splits :
           c.depth > 0 =>
               Cardinality(NamedIn(Asked(c, Len(c.routes)), "a")) > 1
    /\ \E c \in Splits : c.depth = 2

\* C24: at every recursion depth the truncated list of split_projection
\* is as long as the projection list it was given and truncated[i] has the
\* name of exprs[i], so that the final select, which reads the names of the
\* projection list, finds each output column.
TruncatedCorrespondence ==
    pc # "start" => \A c \in Splits :
        /\ Len(c.truncated) = Len(c.exprs)
        /\ \A i \in 1..Len(c.exprs) :
               Name(c.truncated[i]) = Name(c.exprs[i])

\* The expression at index i of the invocation c was rewritten by the
\* rewriter named route.
RewrittenBy(c, i, route) ==
    /\ c.routes[i] = route
    /\ c.truncated[i] # c.exprs[i]

\* The rule has replaced a Project whose expressions were rewritten at
\* depth 0 and at depth 1, by one rewriter and by the other.
TruncatedCorrespondenceWitness ==
    /\ Done
    /\ \E c, d \in Splits :
           /\ c.depth = 0
           /\ d.depth = 1
           /\ \E i \in 1..Len(c.exprs) : RewrittenBy(c, i, "any")
           /\ \E i \in 1..Len(d.exprs) : RewrittenBy(d, i, "root")

-----------------------------------------------------------------------------
(* The pre-project of a stage                                              *)

\* The truncated expressions of the invocation c that the partition sends
\* to UDFProjects.
ActorPoolStages(c) == SelectSeq(c.truncated, exists_skip_list_map)

\* The truncated expressions of the invocation c without a UDF: none
\* outside list_map, whose UDFs are not split.
StatelessStages(c) ==
    SelectSeq(c.truncated, LAMBDA e : ~UdfOutsideListMap(e))

\* The nodes the invocation c puts on the plan: the Project of the base
\* case, or the pre-project, the UDFProjects and the final select.
StageSize(c) == IF c.routes = <<>> THEN 1 ELSE 2 + Len(ActorPoolStages(c))

\* The number of nodes of the replacement x below the stage of x.calls[j]:
\* the input and the stages of the deeper invocations.
RECURSIVE StageBelow(_, _)
StageBelow(x, j) ==
    IF j = Len(x.calls) THEN Len(x.input)
    ELSE StageBelow(x, j + 1) + StageSize(x.calls[j + 1])

\* The nodes of the stage of x.calls[j], lowest first.
StageNodes(x, j) ==
    SubSeq(x.repl, StageBelow(x, j) + 1,
           StageBelow(x, j) + StageSize(x.calls[j]))

\* One column per name of schema that is not in names, in schema order.
BareColumns(schema, names) ==
    ColumnsOf(SelectSeq(schema, LAMBDA n : n \notin names))

\* The nodes of the sequence that hold e as one of their expressions.
Evaluating(nodes, e) ==
    {k \in 1..Len(nodes) : e \in Range(nodes[k].exprs \o nodes[k].udf)}

\* The pre-project of the stage of x.calls[j]: nodes is the stage, schema the
\* schema of the plan below it.
PreProjectOf(c, nodes, schema) ==
    /\ nodes[1].k = "Project"
    /\ nodes[1].exprs =
           BareColumns(schema, Range(Names(StatelessStages(c))))
               \o StatelessStages(c)
    /\ \A k \in 2..(Len(nodes) - 1) : nodes[k].k = "UDFProject"
    /\ nodes[Len(nodes)].k = "Project"
    /\ \A i \in 1..Len(StatelessStages(c)) :
           /\ NamedIn(nodes[1].exprs, Name(StatelessStages(c)[i])) # {}
           /\ requires_computation(StatelessStages(c)[i]) =>
                  /\ Evaluating(nodes, StatelessStages(c)[i]) = {1}
                  /\ Cardinality({k \in 1..Len(nodes[1].exprs) :
                         nodes[1].exprs[k] = StatelessStages(c)[i]}) = 1

\* C25: in every stage of a replacement the first node on new_child is a
\* Project of one bare column per column of new_child's schema, in schema
\* order, omitting the names of the truncated expressions without UDF, then
\* these expressions in projection order; each of them is evaluated once,
\* in that Project, and the UDFProjects of the stage are above it.
PreProject ==
    Done => \A x \in Replaced : \A j \in 1..Len(x.calls) :
        x.calls[j].routes # <<>> =>
            PreProjectOf(x.calls[j], StageNodes(x, j),
                         Schema(SubSeq(x.repl, 1, StageBelow(x, j))))

-----------------------------------------------------------------------------
(* Soundness of the merge by name                                          *)

\* C26: a lifted child that split_projection does not push, because
\* remaining already holds an entry of its name, is equal to that entry: no
\* lifted child that differs from the entry of its name is dropped, so every
\* lifted child a rewriter asked for is in remaining as it was lifted.
DedupSound ==
    pc # "start" => \A c \in Splits :
        \A e \in Range(Asked(c, Len(c.routes))) :
            e.k = "alias" => e \in Range(c.remaining)

-----------------------------------------------------------------------------
(* The unreachable branch                                                  *)

\* TruncateAnyUDFChildren, applied to the expression at index i of the
\* invocation c, executes its unreachable!().
Panics(c, i) ==
    RewriteAny(c.exprs[i], AnyState(<<>>, FALSE, FALSE, <<>>),
               c.depth, i - 1).st.panic

\* C27: for every projection list handed to split_projection, at every
\* recursion depth, TruncateAnyUDFChildren is never on a UDF node while its
\* is_list_map flag is unset: no application of the rule ends in the panic
\* of unreachable!(), every expression of every list is routed, and no
\* expression routed to TruncateAnyUDFChildren makes it panic.
FailLoudUnreachable ==
    /\ res.st # "panic"
    /\ res2.st # "panic"
    /\ res3.st # "panic"
    /\ \A c \in Splits :
           /\ Len(c.routes) = Len(c.exprs)
           /\ \A i \in 1..Len(c.exprs) : c.routes[i] = "any" => ~Panics(c, i)

\* The rule has replaced a Project with a UDF under two aliases, routed to
\* TruncateRootUDF, and below it TruncateAnyUDFChildren has replaced a UDF
\* input of a node that is not a UDF.
FailLoudUnreachableWitness ==
    /\ Done
    /\ \E c, d \in Splits :
           /\ \E i \in 1..Len(c.exprs) :
                  /\ c.routes[i] = "root"
                  /\ Len(AliasChain(c.exprs[i])) = 2
           /\ d.depth > c.depth
           /\ \E i \in 1..Len(d.exprs) : RewrittenBy(d, i, "any")

-----------------------------------------------------------------------------
(* The video decoder                                                       *)

\* C28: whenever read_packet is invoked for an Input that buffer::input
\* returned, the MemReader behind its opaque pointer is alive: no invocation
\* of read_packet finds the MemReader dropped.
ReaderAlive == \A i \in 1..Len(read_log) : read_log[i] = "alive"

\* The frames among the results of next_frame, in the order returned.
FramesGot == SelectSeq(got, LAMBDA r : r.k = "Some")

\* C29: the decode task never sends an Err on the frame channel: when
\* decode_frame fails the task ends and tx is dropped, so next_frame never
\* returns Err, and after a failure in mid-stream it returns the frames
\* already sent, each once and in the order sent, and then Ok(None).
NoErrOnChannel ==
    /\ \A i \in 1..Len(chan) : chan[i].ok
    /\ \A i \in 1..Len(got) : got[i].k # "Err"
    /\ (ending = "error" /\ got # <<>> /\ got[Len(got)] = OkNone) =>
           [i \in 1..Len(FramesGot) |-> FramesGot[i].frame_number] = sent

\* The task has failed after it sent a frame, and next_frame has returned
\* that frame and then Ok(None).
NoErrOnChannelWitness ==
    /\ ending = "error"
    /\ Len(sent) >= 1
    /\ Len(got) = Len(sent) + 1
    /\ got[Len(got)] = OkNone

\* C30: under any interleaving of the decode task and the consumer the
\* frames next_frame returns carry frame_number 1, 2, 3, ... without gap,
\* duplicate or reordering; once next_frame has returned Ok(None) it never
\* returns a frame; and the task stops at its first failed send.
FrameOrder ==
    /\ \A i \in 1..Len(FramesGot) : FramesGot[i].frame_number = i
    /\ \A i, j \in 1..Len(got) : (i < j /\ got[i] = OkNone) => got[j] = OkNone
    /\ send_errors <= 1
    /\ send_errors = 1 => (task = "done" /\ ending = "closed")

====
